---- MODULE Spec2Model ----
(***************************************************************************)
(* Model of pnl_monitoring.py: the Deribit session-token lifecycle         *)
(* (authenticate / refresh_access_token / ensure_authenticated), the       *)
(* authenticated GET with its single stale-token retry                     *)
(* (make_authenticated_request), the per-account query                     *)
(* (get_positions / get_equity_and_positions) and the fan-out over the     *)
(* configured accounts (load_accounts_config / get_all_accounts_equity),   *)
(* the rendering of the report (format_equity_message) and its posting     *)
(* (send_equity_to_telegram / TelegramBot.send_message).                   *)
(*                                                                         *)
(* Spec is the whole run.  FilterSpec starts where get_positions has its   *)
(* list and FormatSpec where send_equity_to_telegram has its report, each  *)
(* over a wider set of inputs than the run's servers answer with.          *)
(*                                                                         *)
(* The program is one thread of control.  Every HTTP exchange is one step  *)
(* of the model: the server's answer is the step's input, drawn from the   *)
(* sets of answers defined below.  pc is the position of the thread.       *)
(***************************************************************************)
EXTENDS Integers, Sequences, FiniteSets, TLC

\* ------------------------------------------------------------------ bounds
\* Number of DERIBIT_CLIENT_ID suffixes the environment may define.
MaxAccounts == 2
\* Longest positions list the server returns.
MaxPositions == 1
\* Number of times the wall clock advances during one run.
MaxTicks == 1
\* Longest positions list handed to the filter of get_positions when the
\* filter is checked on its own (FilterSpec).
MaxFetched == 3

\* Most accounts of a report, and most positions of one account, handed to
\* format_equity_message when it is checked on its own (FormatSpec).
MaxReported == 2
MaxShown == 2

\* ------------------------------------------------------- program constants
\* result.get("expires_in", 900)
DefaultExpiresIn == 900
\* time.time() + expires_in - 60
SafetyMargin == 60
\* Seconds by which one Tick advances time.time(): the time a token of the
\* default lifetime stays valid.
TickSeconds == DefaultExpiresIn - SafetyMargin

\* self.access_token = None / self.refresh_token = None
NoToken == 0
\* A refresh_token the server sent as the empty string (falsy in
\* "if self.refresh_token", like None).
EmptyToken == -1
\* self.token_expires_at = None; a set expiry t is <<t>>.
NoExpiry == <<>>

\* The lifetimes a server may declare in "expires_in": none (<<>> stands for
\* a result without the key), or one as short as the safety margin.
ExpiresInChoices == {<<>>, <<SafetyMargin>>}

\* String order of the identities (Python compares code points, so the
\* capital U of the default "Unknown" sorts before the lower-case letters).
EmailOrder == <<"Unknown", "a@x.com", "b@x.com">>
\* The email an account summary may carry; with the summaries that carry
\* none, two accounts can come back under the same identity or out of order.
ServerEmails == {"a@x.com"}
NoEmail == "<absent>"

\* The texts the program prints or posts.
ConfigurationError == "Configuration error: No valid account configurations found"
TelegramConfigError ==
    "Error: TELEGRAM_BOT_TOKEN and TELEGRAM_CHAT_ID must be set in environment variables"
NoDataMessage == "No position data available"
FailedMessage == "Failed to retrieve position data from any accounts"
SendingNotice == "Sending position data to Telegram..."
SentNotice == "Successfully sent position data to Telegram"
NotSentNotice == "Failed to send message to Telegram"
\* The indentation of the direction and size lines.
Indent == "                   "

\* A mutation of methods_to_try: the POST strategy listed first.
methods_to_try_PostFirst == <<"POST_jsonrpc", "GET_scope", "GET_noscope">>

\* methods_to_try, in list order.
methods_to_try == <<"GET_scope", "POST_jsonrpc", "GET_noscope">>

VARIABLES
    pc,                \* position of the thread
    accounts,          \* load_accounts_config(): sorted list of suffixes
    results,           \* get_all_accounts_equity: results
    report,            \* get_all_accounts_equity: valid_results as returned
    access_token,      \* monitor.access_token
    refresh_token,     \* monitor.refresh_token
    token_expires_at,  \* monitor.token_expires_at
    now,               \* time.time()
    ticks,             \* number of clock advances so far
    minted,            \* tokens the server has issued to this monitor
    ctx,               \* caller of the running authenticate/refresh
    i,                 \* authenticate: index into methods_to_try
    auth,              \* record of the authenticate call running or just returned
    call,              \* record of the running / last make_authenticated_request
    query,             \* record of the running / last get_equity_and_positions
    success,           \* what send_equity_to_telegram returned
    sent_messages,     \* texts TelegramBot.send_message posted, in order
    printed            \* lines get_all_accounts_equity and
                       \* send_equity_to_telegram printed themselves

vars == <<pc, accounts, results, report, access_token, refresh_token,
          token_expires_at, now, ticks, minted, ctx, i, auth, call, query,
          success, sent_messages, printed>>

\* What the run shows of itself beyond get_all_accounts_equity's return value.
outputs == <<success, sent_messages, printed>>

\* ------------------------------------------------------------- data
None == [tag |-> "None"]

Snapshot(email, positions) ==
    [tag |-> "snapshot", email |-> email, positions |-> positions]

RECURSIVE SeqsUpTo(_, _)
SeqsUpTo(S, n) ==
    IF n = 0 THEN {<<>>}
    ELSE LET shorter == SeqsUpTo(S, n - 1)
         IN  shorter \cup {Append(s, x) : s \in {t \in shorter : Len(t) = n - 1}, x \in S}

\* dict.get(key, default)
Get(rec, key, default) == IF key \in DOMAIN rec THEN rec[key] ELSE default

\* A JSON number as Python holds it: an int (float FALSE, frac 0, and no
\* negative zero) or a float; its value is (-1)^neg * (whole + frac * 10^-9).
PyInt(n) == [float |-> FALSE, neg |-> n < 0,
             whole |-> IF n < 0 THEN -n ELSE n, frac |-> 0]
PyFloat(neg, whole, frac) ==
    [float |-> TRUE, neg |-> neg, whole |-> whole, frac |-> frac]

\* x == 0 in Python: 0, 0.0 and -0.0 are all equal to 0.
IsZero(x) == x.whole = 0 /\ x.frac = 0

\* A position record of private/get_positions: instrument and size.
PositionRecs == [instrument_name : {"BTC-PERPETUAL"}, size : {PyInt(0), PyInt(10)}]

\* The position records the filter is checked on: two instruments, sizes
\* zero (int and float), positive and negative, and a record without "size".
FetchedRecs ==
    [instrument_name : {"BTC-PERPETUAL", "ETH-PERPETUAL"},
     size : {PyInt(0), PyFloat(FALSE, 0, 0), PyInt(10), PyInt(-10)}]
    \cup {[instrument_name |-> "BTC-PERPETUAL"]}

\* A position record with its optional keys: each of d, sc, lq is <<>> for
\* a key the server left out (or sent as null) and <<v>> for the value v.
Opt(key, v) == IF v = <<>> THEN <<>> ELSE key :> v[1]
PositionRec(name, size, d, sc, lq) ==
    [instrument_name |-> name, size |-> size]
    @@ Opt("direction", d) @@ Opt("size_currency", sc)
    @@ Opt("estimated_liquidation_price", lq)

\* The position records format_equity_message is checked on one by one:
\* every direction, sizes of either sign as int and float (never zero: the
\* filter of get_positions dropped those), base sizes absent, zero as int
\* and float, positive and negative, liquidation prices absent, zero, set.
ShownRecs ==
    {PositionRec("BTC-PERPETUAL", size, d, sc, lq) :
        size \in {PyInt(10), PyInt(-10), PyInt(1234567), PyFloat(FALSE, 10, 0)},
        d \in {<<>>, <<"sell">>, <<"buy">>},
        sc \in {<<>>, <<PyInt(0)>>, <<PyFloat(FALSE, 0, 0)>>,
                <<PyFloat(FALSE, 0, 6687487)>>, <<PyFloat(TRUE, 0, 500000000)>>},
        lq \in {<<>>, <<PyInt(0)>>, <<PyFloat(FALSE, 45000, 500000000)>>}}

\* The two position records the layout of the text is checked on.
LayoutRecs ==
    {PositionRec("BTC-PERPETUAL", PyInt(10), <<"sell">>,
                 <<PyFloat(FALSE, 0, 6687487)>>, <<PyFloat(FALSE, 45000, 500000000)>>),
     PositionRec("ETH-PERPETUAL", PyInt(1234567), <<"buy">>,
                 <<PyFloat(FALSE, 12, 500000000)>>, <<>>)}

\* The reports format_equity_message is checked on: up to MaxReported
\* accounts, in the ascending order get_all_accounts_equity returns, of up
\* to MaxShown positions each, and one-account reports of one position.
LayoutReports ==
    UNION {[1..n -> SeqsUpTo(LayoutRecs, MaxShown)] : n \in 0..MaxReported}
FormatReports ==
    {[k \in 1..Len(ps) |-> Snapshot(EmailOrder[k], ps[k])] : ps \in LayoutReports}
    \cup {<<Snapshot("a@x.com", <<p>>)>> : p \in ShownRecs}

\* What the auth endpoint may answer to one exchange.
\*   transport        requests raised RequestException (connection, timeout,
\*                    raise_for_status on an error status)
\*   no_result        a JSON body without "result"
\*   no_access_token  "result" without "access_token"
\*   no_refresh_token "result" with "access_token" but no "refresh_token"
\*   ok               "result" with both tokens
AuthFailKinds == {"transport", "no_result"}
AuthMalformedKinds == {"no_access_token", "no_refresh_token"}
AuthResponses ==
    [kind : AuthFailKinds \cup AuthMalformedKinds, has_refresh : {FALSE},
     expires_in : {<<>>}]
    \cup [kind : {"ok"}, has_refresh : BOOLEAN, expires_in : ExpiresInChoices]

\* What a private endpoint may answer.
\*   ok         status 200 and a JSON body; result is data.get("result", data)
\*   stale      non-200, error code 13009 with reason invalid_token
\*   error      any other non-200 answer
\*   transport  requests.get raised, or response.json() could not decode
\*              the body (both end in "except Exception")
SummaryPayloads ==
    {[tag |-> "empty"]}
    \cup [tag : {"summary"}, equity : BOOLEAN, email : ServerEmails \cup {NoEmail}]
PositionsPayloads ==
    {[tag |-> "positions", list |-> l] : l \in SeqsUpTo(PositionRecs, MaxPositions)}
FailKinds == {"stale", "error", "transport"}
EndpointResponses(endpoint) ==
    {[kind |-> k, result |-> None] : k \in FailKinds}
    \cup {[kind |-> "ok", result |-> p] :
            p \in IF endpoint = "summary" THEN SummaryPayloads ELSE PositionsPayloads}

\* The record of one authenticate / refresh_access_token:
\*   ret         authenticate(): "pending", then "true" | "false" | "raised"
\*   tried       the strategies authenticate() has tried, in order
\*   refreshed   the answer to the refresh exchange of refresh_access_token:
\*               "none" (no exchange), "ok", "raised" (KeyError), or the
\*               kind of failure that made it fall back to authenticate()
\*   access, refresh, expires_in, at
\*               the tokens and lifetime of the successful answer and the
\*               time.time() at which it was stored
IdleAuth == [ret |-> "idle", tried |-> <<>>, refreshed |-> "none",
             access |-> NoToken, refresh |-> NoToken, expires_in |-> <<>>,
             at |-> 0]
PendingAuth == [IdleAuth EXCEPT !.ret = "pending"]

\* The record of one make_authenticated_request:
\*   ensured   what ensure_authenticated did: "none" (token valid),
\*             "started", then "ok" | "fail" | "raised"
\*   first     kind of the answer to the first request, retry to the second
\*   forced    refresh_access_token calls of the invalid-token branch
\*   reauth    how that call ended: "started", "ok" | "fail" | "raised"
\*   requests  requests sent to the endpoint, sent their bearer tokens
\*   last      result payload of the last 200 answer
\*   outcome   "pending", then "value" | "none" | "raised"
IdleCall == [endpoint |-> "none", ensured |-> "none", first |-> "none",
             forced |-> 0, reauth |-> "none", retry |-> "none",
             requests |-> 0, sent |-> <<>>, last |-> None, outcome |-> "idle"]

\* The record of one get_equity_and_positions:
\*   state     "summary", "positions", "done"
\*   summary   account_data
\*   reauths   reauthentications (ensure_authenticated's and the
\*             invalid-token branch's) during the query
\*   replayed  the summary call met a stale token on a token it held valid,
\*             reauthenticated and got an account summary from the retry
IdleQuery == [state |-> "idle", summary |-> None, reauths |-> 0, replayed |-> FALSE]

Init ==
    /\ pc = "main"
    /\ accounts = <<>>
    /\ results = <<>>
    /\ report = <<>>
    /\ access_token = NoToken
    /\ refresh_token = NoToken
    /\ token_expires_at = NoExpiry
    /\ now = 0
    /\ ticks = 0
    /\ minted = 0
    /\ ctx = "none"
    /\ i = 0
    /\ auth = IdleAuth
    /\ call = IdleCall
    /\ query = IdleQuery
    /\ success = "none"
    /\ sent_messages = <<>>
    /\ printed = <<>>

\* ------------------------------------------------------------- helpers
\* A mutation of is_token_valid: the expiry compared with itself.
is_token_valid_Never ==
    /\ access_token # NoToken
    /\ token_expires_at # NoExpiry
    /\ token_expires_at[1] < token_expires_at[1]

\* is_token_valid
is_token_valid ==
    /\ access_token # NoToken
    /\ token_expires_at # NoExpiry
    /\ now < token_expires_at[1]

\* A mutation of HasRefreshToken: the refresh token never looked at.
HasRefreshToken_Never == FALSE

\* Truth value of self.refresh_token
HasRefreshToken == refresh_token \notin {NoToken, EmptyToken}

\* A mutation of ExpiryOf: the safety margin not taken off.
ExpiryOf_NoMargin(expires_in) ==
    LET e == IF expires_in = <<>> THEN DefaultExpiresIn ELSE expires_in[1]
    IN  <<now + e>>

\* expires_in = result.get("expires_in", 900);
\* time.time() + expires_in - 60
ExpiryOf(expires_in) ==
    LET e == IF expires_in = <<>> THEN DefaultExpiresIn ELSE expires_in[1]
    IN  <<now + e - SafetyMargin>>

\* A mutation of active_positions: the list returned as fetched.
active_positions_Unfiltered(positions_data) == positions_data

\* [pos for pos in positions_data if pos.get("size", 0) != 0]
active_positions(positions_data) ==
    SelectSeq(positions_data, LAMBDA pos : ~IsZero(Get(pos, "size", PyInt(0))))

\* account_data.get("email", "Unknown")
EmailOf(account_data) ==
    IF account_data.email = NoEmail THEN "Unknown" ELSE account_data.email

\* A mutation of HasEquity: "if account_data:" without the "equity" test.
HasEquity_TruthyOnly(account_data) == account_data.tag = "summary"

\* account_data and "equity" in account_data
HasEquity(account_data) ==
    /\ account_data.tag = "summary"
    /\ account_data.equity

Rank(email) == CHOOSE k \in 1..Len(EmailOrder) : EmailOrder[k] = email

\* list.sort(key=lambda x: x['email']): stable, ascending.
RECURSIVE InsertByEmail(_, _)
InsertByEmail(sorted, r) ==
    IF sorted = <<>> THEN <<r>>
    ELSE IF Rank(sorted[Len(sorted)].email) <= Rank(r.email)
         THEN Append(sorted, r)
         ELSE Append(InsertByEmail(SubSeq(sorted, 1, Len(sorted) - 1), r),
                     sorted[Len(sorted)])

\* A mutation of SortByEmail: the sort left out.
SortByEmail_Unsorted(rs) == rs

RECURSIVE SortByEmail(_)
SortByEmail(rs) ==
    IF rs = <<>> THEN <<>>
    ELSE InsertByEmail(SortByEmail(SubSeq(rs, 1, Len(rs) - 1)), rs[Len(rs)])

\* A mutation of EnsureOk: the result of ensure_authenticated ignored.
EnsureOk_Ignored(ret) == TRUE

\* "if self.ensure_authenticated()" is true, line 162: go on to the request.
EnsureOk(ret) == ret = "true"

\* A mutation of RetryAfterReauth: the retry sent whatever the
\* reauthentication returned.
RetryAfterReauth_Always(ret) == TRUE

\* "if self.refresh_access_token()", line 188: send the retry.
RetryAfterReauth(ret) == ret = "true"

\* A mutation of IsStale: every error answer taken for a stale token.
IsStale_AnyError(resp) == resp.kind \in {"stale", "error"}

\* Lines 186-187: the answer is the invalid-token error.
IsStale(resp) == resp.kind = "stale"

\* A mutation of RetryBearer: the headers of the first request sent again.
RetryBearer_Stale(sent_before, token) == sent_before

\* Line 190: headers["Authorization"] = f"Bearer {self.access_token}", the
\* bearer token of the retry; sent_before is the one the headers held.
RetryBearer(sent_before, token) == token

\* A mutation of RetryResult: the retry's data not returned.
RetryResult_Dropped(resp) == None

\* Lines 192-196: the value the retry returns.
RetryResult(resp) == IF resp.kind = "ok" THEN resp.result ELSE None

\* get_positions, lines 218-225, then "positions or []" of line 256.
PositionsOf(value, raised) ==
    IF raised \/ value = None \/ value.list = <<>>
    THEN <<>>
    ELSE active_positions(value.list)

\* A mutation of SnapshotOf: no snapshot without a positions list.
SnapshotOf_NeedsPositions(account_data, value, raised) ==
    IF raised \/ value = None
    THEN None
    ELSE Snapshot(EmailOf(account_data), PositionsOf(value, raised))

\* Lines 244-257: the snapshot from account_data and the positions call.
SnapshotOf(account_data, value, raised) ==
    Snapshot(EmailOf(account_data), PositionsOf(value, raised))

\* valid_results = [r for r in results if r is not None]
valid_results(rs) == SelectSeq(rs, LAMBDA r : r # None)

\* ------------------------------------------------------------- formatting
\* Texts are strings; \o joins them, "\n" is the line feed.
Digit(d) == SubSeq("0123456789", d + 1, d + 1)

\* The decimal digits of a natural number.
RECURSIVE Digits(_)
Digits(n) == IF n < 10 THEN Digit(n) ELSE Digits(n \div 10) \o Digit(n % 10)

\* The last width decimal digits of n, zero-padded.
RECURSIVE Padded(_, _)
Padded(n, width) ==
    IF width = 0 THEN "" ELSE Padded(n \div 10, width - 1) \o Digit(n % 10)

\* s without its trailing "0" characters, one character kept at least.
RECURSIVE StripZeros(_)
StripZeros(s) ==
    IF Len(s) > 1 /\ SubSeq(s, Len(s), Len(s)) = "0"
    THEN StripZeros(SubSeq(s, 1, Len(s) - 1))
    ELSE s

Sign(x) == IF x.neg THEN "-" ELSE ""

\* abs(x)
Abs(x) == [x EXCEPT !.neg = FALSE]

\* -x: an int zero stays 0, a float zero becomes -0.0.
Negate(x) == IF ~x.float /\ IsZero(x) THEN x ELSE [x EXCEPT !.neg = ~@]

\* f"{x:.9f}": sign, integer part, nine decimals.
Format9f(x) == Sign(x) \o Digits(x.whole) \o "." \o Padded(x.frac, 9)

\* f"{x:.2f}": sign, then the magnitude rounded to two decimals (the
\* numbers of the model have at most nine decimals, none at a tie).
Format2f(x) ==
    LET cents == (x.frac + 5000000) \div 10000000
    IN  Sign(x) \o Digits(x.whole + cents \div 100) \o "." \o Padded(cents % 100, 2)

\* f"{x}", which is str(x): an int as its digits; a float as repr gives it
\* for magnitudes from 0.0001 up to 10^16: at least one decimal, no
\* trailing zeros.
Str(x) ==
    IF x.float
    THEN Sign(x) \o Digits(x.whole) \o "." \o StripZeros(Padded(x.frac, 9))
    ELSE Sign(x) \o Digits(x.whole)

\* A mutation of Display: the raw value shown as it came.
Display_PassThrough(direction_field, x) == x

\* Lines 401-408: -abs(x) for direction "sell", abs(x) otherwise.
Display(direction_field, x) ==
    IF direction_field = "sell" THEN Negate(Abs(x)) ELSE Abs(x)

\* Lines 396-419: the six lines of one position, the empty line included.
position_lines(position) ==
    LET size_btc == Get(position, "size_currency", PyInt(0))
        size_usd == Get(position, "size", PyInt(0))
        direction_field == Get(position, "direction", "")
        display_btc == Display(direction_field, size_btc)
        display_usd == Display(direction_field, size_usd)
        direction == IF direction_field = "sell" THEN "SHORT" ELSE "LONG"
        instrument == Get(position, "instrument_name", "Unknown")
        liquidation ==
            IF /\ "estimated_liquidation_price" \in DOMAIN position
               /\ ~IsZero(position.estimated_liquidation_price)
            THEN Format2f(position.estimated_liquidation_price)
            ELSE "-"
    IN  <<"Position: " \o instrument,
          Indent \o direction,
          Indent \o Format9f(display_btc) \o " BTC",
          Indent \o Str(display_usd) \o " USD",
          "Liquidation: " \o liquidation,
          "">>

RECURSIVE Flatten(_)
Flatten(seqs) == IF seqs = <<>> THEN <<>> ELSE Head(seqs) \o Flatten(Tail(seqs))

\* Lines 390-424: the lines of one account, the empty line included.
account_lines(result) ==
    <<"<b>Deribit</b> " \o result.email>>
    \o (IF result.positions # <<>>
        THEN Flatten([k \in 1..Len(result.positions) |->
                        position_lines(result.positions[k])])
        ELSE <<"Position: -", "Liquidation: -">>)
    \o <<"">>

\* "\n".join(lines)
RECURSIVE Join(_)
Join(lines) ==
    IF lines = <<>> THEN ""
    ELSE IF Len(lines) = 1 THEN lines[1]
         ELSE lines[1] \o "\n" \o Join(Tail(lines))

\* format_equity_message: the lines of all accounts, the last line popped
\* if it is empty, joined by line feeds.
format_equity_message(rs) ==
    IF rs = <<>> THEN NoDataMessage
    ELSE LET message_lines == Flatten([k \in 1..Len(rs) |-> account_lines(rs[k])])
             n == Len(message_lines)
         IN  Join(IF n > 0 /\ message_lines[n] = ""
                  THEN SubSeq(message_lines, 1, n - 1)
                  ELSE message_lines)

\* A mutation of SendResult: success returned whatever send_message said.
SendResult_AlwaysTrue(delivered) == "true"

\* Lines 457-464: "success = bot.send_message(message)" ... "return success".
SendResult(delivered) == IF delivered THEN "true" ELSE "false"

\* load_accounts_config over an environment env: suffix k (1 the bare
\* DERIBIT_CLIENT_ID, k > 1 the suffix "_k") -> "both" | "id_only" | "none".
\* The result is sorted base account first, then by suffix.
Environments == [1..MaxAccounts -> {"both", "id_only", "none"}]

RECURSIVE SuffixesUpTo(_, _)
SuffixesUpTo(env, k) ==
    IF k = 0 THEN <<>>
    ELSE IF env[k] = "both" THEN Append(SuffixesUpTo(env, k - 1), k)
         ELSE SuffixesUpTo(env, k - 1)

load_accounts_config(env) == SuffixesUpTo(env, MaxAccounts)

\* ------------------------------------------------------------- returns
\* Return of make_authenticated_request into its caller, c being the record
\* of the finished call, value its return value and raised whether an
\* exception left it instead.
\*   summary   (get_equity_and_positions): a truthy value with "equity" goes
\*             on to get_positions; anything else, an exception included,
\*             makes get_equity_and_positions return None, which
\*             get_all_accounts_equity appends to results.
\*   positions (get_positions): filters the list, [] for a falsy value, None
\*             on an exception; "positions or []" then builds the snapshot,
\*             which get_all_accounts_equity appends to results.
ReturnFromCall(c, value, raised) ==
    /\ call' = c
    /\ IF c.endpoint = "summary"
       THEN LET replayed == /\ c.ensured = "none"
                            /\ c.first = "stale"
                            /\ c.reauth = "ok"
                            /\ c.retry = "ok"
                            /\ HasEquity(c.last)
            IN  IF ~raised /\ value # None /\ HasEquity(value)
                THEN /\ pc' = "call"
                     /\ query' = [query EXCEPT !.state = "positions",
                                              !.summary = value,
                                              !.replayed = replayed]
                     /\ results' = results
                ELSE /\ pc' = "loop"
                     /\ query' = [query EXCEPT !.state = "done",
                                              !.summary = IF raised THEN None ELSE value,
                                              !.replayed = replayed]
                     /\ results' = Append(results, None)
       ELSE /\ pc' = "loop"
            /\ query' = [query EXCEPT !.state = "done"]
            /\ results' = Append(results, SnapshotOf(query.summary, value, raised))

\* Return of authenticate / refresh_access_token to whoever called it:
\*   top     get_all_accounts_equity line 361: True starts the account's
\*           query, False appends None, an exception leaves
\*           get_all_accounts_equity (it catches ValueError only);
\*   ensure  ensure_authenticated in make_authenticated_request line 162:
\*           True sends the request, False returns None, an exception
\*           leaves make_authenticated_request;
\*   stale   the invalid-token branch, line 188, inside the try: True sends
\*           the retry, False returns None, an exception is caught by
\*           "except Exception" and returns None.
AuthReturn(ret) ==
    /\ ctx' = "none"
    /\ i' = 0
    /\ CASE ctx = "top" /\ ret = "true" ->
              /\ pc' = "call"
              /\ query' = [IdleQuery EXCEPT !.state = "summary"]
              /\ UNCHANGED <<results, call>>
         [] ctx = "top" /\ ret = "false" ->
              /\ pc' = "loop"
              /\ results' = Append(results, None)
              /\ UNCHANGED <<query, call>>
         [] ctx = "top" /\ ret = "raised" ->
              /\ pc' = "crashed"
              /\ UNCHANGED <<results, query, call>>
         [] ctx = "ensure" /\ ret # "raised" /\ EnsureOk(ret) ->
              /\ pc' = "request"
              /\ call' = [call EXCEPT !.ensured = IF ret = "true" THEN "ok" ELSE "fail"]
              /\ UNCHANGED <<results, query>>
         [] ctx = "ensure" /\ ret # "raised" /\ ~EnsureOk(ret) ->
              ReturnFromCall([call EXCEPT !.ensured = "fail", !.outcome = "none"],
                             None, FALSE)
         [] ctx = "ensure" /\ ret = "raised" ->
              ReturnFromCall([call EXCEPT !.ensured = "raised", !.outcome = "raised"],
                             None, TRUE)
         [] ctx = "stale" /\ ret # "raised" /\ RetryAfterReauth(ret) ->
              /\ pc' = "retry"
              /\ call' = [call EXCEPT !.reauth = IF ret = "true" THEN "ok" ELSE "fail"]
              /\ UNCHANGED <<results, query>>
         [] ctx = "stale" /\ ret # "raised" /\ ~RetryAfterReauth(ret) ->
              ReturnFromCall([call EXCEPT !.reauth = "fail", !.outcome = "none"],
                             None, FALSE)
         [] ctx = "stale" /\ ret = "raised" ->
              ReturnFromCall([call EXCEPT !.reauth = "raised", !.outcome = "none"],
                             None, FALSE)

\* The token store after a response with a token payload:
\* access_token, refresh_token, token_expires_at are assigned in this order.
StoreTokens(resp) ==
    /\ access_token' = minted + 1
    /\ refresh_token' = IF resp.has_refresh THEN minted + 1 ELSE EmptyToken
    /\ token_expires_at' = ExpiryOf(resp.expires_in)
    /\ minted' = minted + 1

\* The monitor's fields after a step that ends with pc': a, r, e the
\* fields and m the tokens issued.  A monitor whose account is finished
\* (its result appended, pc' = "loop") is never used again: the loop binds
\* a new one, and the fields are shown as unset from then on.
Monitor(a, r, e, m) ==
    IF pc' = "loop"
    THEN /\ access_token' = NoToken
         /\ refresh_token' = NoToken
         /\ token_expires_at' = NoExpiry
         /\ minted' = 0
    ELSE /\ access_token' = a
         /\ refresh_token' = r
         /\ token_expires_at' = e
         /\ minted' = m

\* result["access_token"] or result["refresh_token"] raises KeyError; the
\* assignments made before it stay.
StoreUntilKeyError(resp) ==
    IF resp.kind = "no_refresh_token"
    THEN Monitor(minted + 1, refresh_token, token_expires_at, minted + 1)
    ELSE Monitor(access_token, refresh_token, token_expires_at, minted)

\* ------------------------------------------------------------- actions
\* get_all_accounts_equity, lines 349-351 and 376-378: load the accounts;
\* the ValueError of an empty configuration is caught and [] returned.
LoadAccounts ==
    /\ pc = "start"
    /\ \E env \in Environments :
         LET loaded == load_accounts_config(env)
         IN  /\ accounts' = loaded
             /\ pc' = IF loaded = <<>> THEN "done" ELSE "loop"
             /\ printed' = IF loaded = <<>>
                           THEN Append(printed, ConfigurationError)
                           ELSE printed
    /\ UNCHANGED <<results, report, access_token, refresh_token, token_expires_at,
                   now, ticks, minted, ctx, i, auth, call, query,
                   success, sent_messages>>

\* The head of "for account in accounts": a new DeribitEquityMonitor and
\* the call monitor.authenticate() of line 361.
NextAccount ==
    /\ pc = "loop"
    /\ Len(results) < Len(accounts)
    /\ access_token' = NoToken
    /\ refresh_token' = NoToken
    /\ token_expires_at' = NoExpiry
    /\ minted' = 0
    /\ ctx' = "top"
    /\ i' = 1
    /\ auth' = PendingAuth
    /\ call' = IdleCall
    /\ query' = IdleQuery
    /\ pc' = "auth"
    /\ UNCHANGED <<accounts, results, report, now, ticks>>
    /\ UNCHANGED outputs

\* After the loop, lines 370-374: filter, sort by email, return.  The last
\* monitor goes out of scope with the function's frame.
ReturnReport ==
    /\ pc = "loop"
    /\ Len(results) = Len(accounts)
    /\ report' = SortByEmail(valid_results(results))
    /\ pc' = "done"
    /\ access_token' = NoToken
    /\ refresh_token' = NoToken
    /\ token_expires_at' = NoExpiry
    /\ minted' = 0
    /\ auth' = IdleAuth
    /\ call' = IdleCall
    /\ query' = IdleQuery
    /\ UNCHANGED <<accounts, results, now, ticks, ctx, i>>
    /\ UNCHANGED outputs

\* One iteration of authenticate's loop: one exchange with public/auth.
\* The record of a returned authenticate() no longer tells the refresh
\* exchange that led to it.
AuthAttempt ==
    /\ pc = "auth"
    /\ \E resp \in AuthResponses :
         LET a == [auth EXCEPT !.tried = Append(@, methods_to_try[i])]
             r == [a EXCEPT !.refreshed = "none"]
         IN  CASE resp.kind = "ok" ->
                    /\ StoreTokens(resp)
                    /\ auth' = [r EXCEPT !.ret = "true", !.access = minted + 1,
                                         !.refresh = IF resp.has_refresh
                                                     THEN minted + 1 ELSE EmptyToken,
                                         !.expires_in = resp.expires_in, !.at = now]
                    /\ AuthReturn("true")
               [] resp.kind \in AuthMalformedKinds ->
                    /\ auth' = [r EXCEPT !.ret = "raised"]
                    /\ AuthReturn("raised")
                    /\ StoreUntilKeyError(resp)
               [] resp.kind \in AuthFailKinds /\ i < Len(methods_to_try) ->
                    /\ auth' = a
                    /\ i' = i + 1
                    /\ UNCHANGED <<pc, results, access_token, refresh_token,
                                   token_expires_at, minted, ctx, call, query>>
               [] resp.kind \in AuthFailKinds /\ i = Len(methods_to_try) ->
                    /\ auth' = [r EXCEPT !.ret = "false"]
                    /\ AuthReturn("false")
                    /\ Monitor(access_token, refresh_token, token_expires_at, minted)
    /\ UNCHANGED <<accounts, report, now, ticks>>
    /\ UNCHANGED outputs

\* refresh_access_token with a refresh token held: the refresh exchange.
\* A response without "result" and a RequestException both fall back to
\* authenticate(); KeyError is not caught here.
RefreshExchange ==
    /\ pc = "refresh"
    /\ \E resp \in AuthResponses :
         CASE resp.kind = "ok" ->
                /\ StoreTokens(resp)
                /\ auth' = [IdleAuth EXCEPT !.refreshed = "ok", !.access = minted + 1,
                                            !.refresh = IF resp.has_refresh
                                                        THEN minted + 1 ELSE EmptyToken,
                                            !.expires_in = resp.expires_in, !.at = now]
                /\ AuthReturn("true")
           [] resp.kind \in AuthMalformedKinds ->
                /\ auth' = [IdleAuth EXCEPT !.refreshed = "raised"]
                /\ AuthReturn("raised")
                /\ StoreUntilKeyError(resp)
           [] resp.kind \in AuthFailKinds ->
                /\ pc' = "auth"
                /\ i' = 1
                /\ auth' = [PendingAuth EXCEPT !.refreshed = resp.kind]
                /\ UNCHANGED <<results, access_token, refresh_token,
                               token_expires_at, minted, ctx, call, query>>
    /\ UNCHANGED <<accounts, report, now, ticks>>
    /\ UNCHANGED outputs

\* Entry of make_authenticated_request, line 162: ensure_authenticated.
\* A valid token goes straight to the request; otherwise
\* refresh_access_token() with a refresh token, authenticate() without.
BeginCall ==
    /\ pc = "call"
    /\ LET c == [IdleCall EXCEPT !.endpoint = query.state, !.outcome = "pending"]
       IN  IF is_token_valid
           THEN /\ pc' = "request"
                /\ call' = c
                /\ auth' = IdleAuth
                /\ UNCHANGED <<ctx, i, query>>
           ELSE /\ call' = [c EXCEPT !.ensured = "started"]
                /\ query' = [query EXCEPT !.reauths = @ + 1]
                /\ ctx' = "ensure"
                /\ IF HasRefreshToken
                   THEN /\ pc' = "refresh"
                        /\ auth' = IdleAuth
                        /\ UNCHANGED i
                   ELSE /\ pc' = "auth"
                        /\ i' = 1
                        /\ auth' = PendingAuth
    /\ UNCHANGED <<accounts, results, report, access_token, refresh_token,
                   token_expires_at, now, ticks, minted>>
    /\ UNCHANGED outputs

\* Lines 165-199: the request with the stored token as bearer credential.
EndpointRequest ==
    /\ pc = "request"
    /\ \E resp \in EndpointResponses(call.endpoint) :
         LET c == [call EXCEPT !.first = resp.kind, !.requests = @ + 1,
                               !.sent = Append(@, access_token),
                               !.last = resp.result]
         IN  CASE resp.kind = "ok" ->
                    /\ ReturnFromCall([c EXCEPT !.outcome = "value"], resp.result, FALSE)
                    /\ auth' = IdleAuth
                    /\ UNCHANGED <<ctx, i>>
               [] resp.kind # "ok" /\ IsStale(resp) ->
                    /\ call' = [c EXCEPT !.forced = @ + 1, !.reauth = "started"]
                    /\ query' = [query EXCEPT !.reauths = @ + 1]
                    /\ ctx' = "stale"
                    /\ IF HasRefreshToken
                       THEN /\ pc' = "refresh"
                            /\ auth' = IdleAuth
                            /\ UNCHANGED i
                       ELSE /\ pc' = "auth"
                            /\ i' = 1
                            /\ auth' = PendingAuth
                    /\ UNCHANGED results
               [] OTHER ->
                    /\ ReturnFromCall([c EXCEPT !.outcome = "none"], None, FALSE)
                    /\ auth' = IdleAuth
                    /\ UNCHANGED <<ctx, i>>
    /\ Monitor(access_token, refresh_token, token_expires_at, minted)
    /\ UNCHANGED <<accounts, report, now, ticks>>
    /\ UNCHANGED outputs

\* Lines 189-196: the retry with the new token; anything but 200 is None.
RetryRequest ==
    /\ pc = "retry"
    /\ \E resp \in EndpointResponses(call.endpoint) :
         LET c == [call EXCEPT !.retry = resp.kind, !.requests = @ + 1,
                               !.sent = Append(@, RetryBearer(call.sent[1],
                                                              access_token)),
                               !.last = resp.result]
         IN  IF resp.kind = "ok"
             THEN ReturnFromCall([c EXCEPT !.outcome = "value"],
                                 RetryResult(resp), FALSE)
             ELSE ReturnFromCall([c EXCEPT !.outcome = "none"], None, FALSE)
    /\ auth' = IdleAuth
    /\ Monitor(access_token, refresh_token, token_expires_at, minted)
    /\ UNCHANGED <<accounts, report, now, ticks, ctx, i>>
    /\ UNCHANGED outputs

\* send_equity_to_telegram, lines 436-444: without TELEGRAM_BOT_TOKEN or
\* TELEGRAM_CHAT_ID it prints the error and returns False; with both it
\* goes on to get_all_accounts_equity.
TelegramConfig ==
    /\ pc = "main"
    /\ \E configured \in BOOLEAN :
         IF configured
         THEN /\ pc' = "start"
              /\ UNCHANGED <<success, printed>>
         ELSE /\ pc' = "returned"
              /\ success' = "false"
              /\ printed' = Append(printed, TelegramConfigError)
    /\ UNCHANGED <<accounts, results, report, access_token, refresh_token,
                   token_expires_at, now, ticks, minted, ctx, i, auth, call,
                   query, sent_messages>>

\* send_equity_to_telegram, lines 449-464, after get_all_accounts_equity
\* returned the report; delivered is what TelegramBot.send_message returns
\* (True, or False after a RequestException).  An empty report posts the
\* failure notice, whose delivery is not looked at, and returns False.
Publish ==
    /\ pc = "done"
    /\ \E delivered \in BOOLEAN :
         IF report = <<>>
         THEN /\ sent_messages' = Append(sent_messages, FailedMessage)
              /\ success' = "false"
              /\ printed' = printed
         ELSE /\ sent_messages' = Append(sent_messages, format_equity_message(report))
              /\ success' = SendResult(delivered)
              /\ printed' = printed \o <<SendingNotice,
                                         IF delivered THEN SentNotice ELSE NotSentNotice>>
    /\ pc' = "returned"
    /\ UNCHANGED <<accounts, results, report, access_token, refresh_token,
                   token_expires_at, now, ticks, minted, ctx, i, auth, call, query>>

\* time.time() advances while the thread waits for the network.
Tick ==
    /\ pc \in {"auth", "refresh", "request", "retry"}
    /\ ticks < MaxTicks
    /\ now' = now + TickSeconds
    /\ ticks' = ticks + 1
    /\ UNCHANGED <<pc, accounts, results, report, access_token, refresh_token,
                   token_expires_at, minted, ctx, i, auth, call, query>>
    /\ UNCHANGED outputs

Next ==
    \/ TelegramConfig
    \/ LoadAccounts
    \/ NextAccount
    \/ ReturnReport
    \/ AuthAttempt
    \/ RefreshExchange
    \/ BeginCall
    \/ EndpointRequest
    \/ RetryRequest
    \/ Publish
    \/ Tick

Spec == Init /\ [][Next]_vars

\* ------------------------------------------------- get_positions' filter
\* The filter of get_positions on its own: make_authenticated_request has
\* just returned positions_data, any list of at most MaxFetched records, to
\* get_positions (line 213); the account summary was fetched before.
FilterInit ==
    /\ pc = "fetched"
    /\ accounts = <<1>>
    /\ results = <<>>
    /\ report = <<>>
    /\ now = 0
    /\ ticks = 0
    /\ access_token = 1
    /\ refresh_token = 1
    /\ token_expires_at = ExpiryOf(<<>>)
    /\ minted = 1
    /\ ctx = "none"
    /\ i = 0
    /\ auth = IdleAuth
    /\ \E l \in SeqsUpTo(FetchedRecs, MaxFetched) :
         call = [IdleCall EXCEPT !.endpoint = "positions", !.first = "ok",
                                 !.requests = 1, !.sent = <<1>>,
                                 !.last = [tag |-> "positions", list |-> l],
                                 !.outcome = "value"]
    /\ query = [IdleQuery EXCEPT !.state = "positions",
                                 !.summary = [tag |-> "summary", equity |-> TRUE,
                                              email |-> "a@x.com"]]
    /\ success = "none"
    /\ sent_messages = <<>>
    /\ printed = <<>>

\* get_positions lines 218-223 and get_equity_and_positions lines 244-257
\* on the returned list.
FilterPositions ==
    /\ pc = "fetched"
    /\ ReturnFromCall(call, call.last, FALSE)
    /\ Monitor(access_token, refresh_token, token_expires_at, minted)
    /\ UNCHANGED <<accounts, report, now, ticks, ctx, i, auth>>
    /\ UNCHANGED outputs

FilterNext == FilterPositions

FilterSpec == FilterInit /\ [][FilterNext]_vars

\* ----------------------------------------------- format_equity_message
\* format_equity_message and the posting of its text on their own:
\* get_all_accounts_equity has just returned the report (line 447), any of
\* FormatReports; the empty report is that of a run without credentials.
FormatInit ==
    /\ pc = "done"
    /\ report \in FormatReports
    /\ results = report
    /\ accounts = [k \in 1..Len(report) |-> k]
    /\ printed = IF report = <<>> THEN <<ConfigurationError>> ELSE <<>>
    /\ success = "none"
    /\ sent_messages = <<>>
    /\ access_token = NoToken
    /\ refresh_token = NoToken
    /\ token_expires_at = NoExpiry
    /\ now = 0
    /\ ticks = 0
    /\ minted = 0
    /\ ctx = "none"
    /\ i = 0
    /\ auth = IdleAuth
    /\ call = IdleCall
    /\ query = IdleQuery

FormatNext == Publish

FormatSpec == FormatInit /\ [][FormatNext]_vars

\* ------------------------------------------------------------- claims
\* A make_authenticated_request that has returned or raised.
CallFinished == call.outcome \in {"value", "none", "raised"}

\* A get_equity_and_positions that has returned, its result just appended.
QueryFinished == pc = "loop" /\ query.state = "done"

LastResult == results[Len(results)]

\* A summary payload with an "equity" field.
CarriesEquity(payload) == payload.tag = "summary" /\ payload.equity

Count(seq, x) == Cardinality({k \in 1..Len(seq) : seq[k] = x})

\* The returned report holds exactly the non-None results.
ReportHoldsValidResults ==
    pc = "done" =>
        /\ \A k \in 1..Len(report) : report[k] # None
        /\ \A k \in 1..Len(results) :
             results[k] # None => Count(report, results[k]) = Count(results, results[k])
        /\ Len(report) = Len(valid_results(results))

\* C1 as stated: after an invalid-token answer the call performs exactly one
\* forced reauthentication and exactly one retry; a failing retry returns
\* failure; no call sends more than two requests to the endpoint.
C1_Original ==
    /\ call.requests <= 2
    /\ (CallFinished /\ call.first = "stale") =>
          /\ call.forced = 1
          /\ call.requests = 2
          /\ (call.retry # "ok" => call.outcome = "none")

\* C1 amended: after an invalid-token answer the call performs exactly one
\* forced reauthentication; it sends exactly one retry if that
\* reauthentication succeeds and none if it fails or raises; a failing retry
\* returns failure; no call sends more than two requests to the endpoint, and
\* a call without an invalid-token answer sends at most one.
C1_RetryOnce ==
    /\ call.requests <= 2
    /\ call.forced <= 1
    /\ (CallFinished /\ call.first = "stale") =>
          /\ call.forced = 1
          /\ call.reauth \in {"ok", "fail", "raised"}
          /\ (call.reauth = "ok" => call.requests = 2 /\ call.retry # "none")
          /\ (call.reauth # "ok" =>
                call.requests = 1 /\ call.retry = "none" /\ call.outcome = "none")
          /\ (call.retry # "ok" => call.outcome = "none")
    /\ (CallFinished /\ call.first # "stale") =>
          call.forced = 0 /\ call.requests <= 1 /\ call.retry = "none"

\* The retry was sent and failed too: two requests, failure returned.
C1_Witness ==
    /\ CallFinished
    /\ call.first = "stale"
    /\ call.reauth = "ok"
    /\ call.retry = "stale"
    /\ call.requests = 2
    /\ call.outcome = "none"

C3_NoRequestWithoutToken ==
    /\ (CallFinished /\ call.ensured = "fail") =>
          /\ call.outcome = "none"
          /\ call.requests = 0
          /\ call.sent = <<>>
          /\ call.first = "none"
    /\ (CallFinished /\ call.ensured = "raised") => call.requests = 0
    /\ call.ensured = "started" => call.requests = 0

C3_Witness ==
    /\ CallFinished
    /\ call.ensured = "fail"
    /\ call.endpoint = "positions"
    /\ call.requests = 0
    /\ call.outcome = "none"

\* C4: an error answer other than the invalid-token error, and a transport
\* exception, return None with no reauthentication and no second request.
C4_NoRetryOnOtherFailure ==
    (CallFinished /\ call.first \in {"error", "transport"}) =>
        /\ call.outcome = "none"
        /\ call.forced = 0
        /\ call.reauth = "none"
        /\ call.requests = 1
        /\ call.retry = "none"

C4_Witness ==
    /\ CallFinished
    /\ call.first = "error"
    /\ call.requests = 1
    /\ call.outcome = "none"

\* C5: authenticate tries GET with scope, POST JSON-RPC, GET without scope
\* in this order; when it returns True the strategies tried are a prefix of
\* that order ending with the winner, the token store holds what the
\* winner's response carried, and authenticate has left its loop.
C5_Order == <<"GET_scope", "POST_jsonrpc", "GET_noscope">>

C5_FirstSuccessWins ==
    /\ auth.ret = "pending" =>
          /\ pc = "auth"
          /\ i \in 1..Len(C5_Order)
          /\ auth.tried = SubSeq(C5_Order, 1, i - 1)
    /\ auth.ret = "true" =>
          /\ pc # "auth"
          /\ auth.tried # <<>>
          /\ auth.tried = SubSeq(C5_Order, 1, Len(auth.tried))
          /\ access_token = auth.access
          /\ refresh_token = auth.refresh
          /\ token_expires_at = <<auth.at
                + (IF auth.expires_in = <<>> THEN DefaultExpiresIn
                   ELSE auth.expires_in[1]) - SafetyMargin>>

\* The second strategy won after the first failed; the third was not tried.
C5_Witness ==
    /\ auth.ret = "true"
    /\ auth.tried = <<"GET_scope", "POST_jsonrpc">>
    /\ access_token = auth.access
    /\ access_token # NoToken

\* C6 as stated: every authenticate ends by returning; it returns False only
\* after all three strategies were tried, and no exception leaves it.
C6_AuthNeverRaises ==
    /\ auth.ret # "raised"
    /\ auth.ret = "false" => auth.tried = methods_to_try

\* C7 as stated: whatever happens to one account, every other account is
\* processed: when the run has ended, each account other than one whose
\* own processing failed has its entry in results.
C7_Isolation ==
    pc \in {"done", "crashed"} =>
        \A k \in 1..Len(accounts) :
            \/ k <= Len(results)
            \/ (pc = "crashed" /\ k = Len(results) + 1)

\* C8 as stated: the returned snapshots are strictly ascending by email.
C8_StrictlyAscending ==
    (pc = "done" /\ accounts # <<>>) =>
        \A k \in 1..(Len(report) - 1) :
            Rank(report[k].email) < Rank(report[k + 1].email)

\* C8 amended: the returned snapshots are ascending by email, each identity
\* less than or equal to the next one's (two accounts may report the same
\* email, or both none and get "Unknown").
C8_Ascending ==
    (pc = "done" /\ accounts # <<>>) =>
        /\ \A k \in 1..(Len(report) - 1) :
              Rank(report[k].email) <= Rank(report[k + 1].email)
        /\ Len(report) = Len(valid_results(results))

\* Two snapshots appended in descending order come back ascending.
C8_Witness ==
    /\ pc = "done"
    /\ Len(results) = 2
    /\ results[1] # None
    /\ results[2] # None
    /\ results[1].email = "a@x.com"
    /\ results[2].email = "Unknown"
    /\ report = <<results[2], results[1]>>

C10_PositionsFailureKeepsAccount ==
    /\ (QueryFinished /\ call.endpoint = "positions"
          /\ call.outcome \in {"none", "raised"}) =>
          /\ LastResult # None
          /\ LastResult.positions = <<>>
          /\ LastResult.email = EmailOf(query.summary)
    /\ pc = "done" =>
          \A k \in 1..Len(results) :
              results[k] # None => \E j \in 1..Len(report) : report[j] = results[k]

C10_Witness ==
    /\ QueryFinished
    /\ call.endpoint = "positions"
    /\ call.first = "error"
    /\ call.outcome = "none"
    /\ LastResult # None
    /\ LastResult.email = "a@x.com"
    /\ LastResult.positions = <<>>

\* A fetched record whose magnitude is not zero.
NonZeroSize(pos) ==
    /\ "size" \in DOMAIN pos
    /\ (pos.size.whole # 0 \/ pos.size.frac # 0)

\* Indices of the records of non-zero magnitude in a fetched list.
KeptIndices(l) == {k \in 1..Len(l) : NonZeroSize(l[k])}

\* Index in l of its n-th record of non-zero magnitude.
NthKept(l, n) ==
    CHOOSE k \in KeptIndices(l) : Cardinality({j \in KeptIndices(l) : j <= k}) = n

\* C11: whatever list of position records the positions call returns, the
\* snapshot's positions hold no record of magnitude zero, and they are
\* exactly the records of non-zero magnitude, in the order fetched.
C11_ZeroDroppedOrderKept ==
    (QueryFinished /\ call.endpoint = "positions" /\ call.outcome = "value") =>
        LET l == call.last.list
            p == LastResult.positions
        IN  /\ \A k \in 1..Len(p) : NonZeroSize(p[k])
            /\ Len(p) = Cardinality(KeptIndices(l))
            /\ \A n \in 1..Len(p) : p[n] = l[NthKept(l, n)]

\* A zero record between two non-zero ones: the two are kept, in order.
C11_Witness ==
    /\ QueryFinished
    /\ call.endpoint = "positions"
    /\ call.last.tag = "positions"
    /\ Len(call.last.list) = 3
    /\ call.last.list[1] = [instrument_name |-> "ETH-PERPETUAL", size |-> PyInt(10)]
    /\ call.last.list[2] = [instrument_name |-> "BTC-PERPETUAL", size |-> PyInt(0)]
    /\ call.last.list[3] = [instrument_name |-> "BTC-PERPETUAL", size |-> PyInt(-10)]
    /\ LastResult.positions = <<call.last.list[1], call.last.list[3]>>

\* The run found no account credential: load_accounts_config raised.
NoAccountConfigured ==
    /\ accounts = <<>>
    /\ \/ pc = "done"
       \/ pc = "returned" /\ sent_messages # <<>>

\* The run found credentials and every account failed.
AllAccountsFailed ==
    /\ accounts # <<>>
    /\ Len(results) = Len(accounts)
    /\ \A k \in 1..Len(results) : results[k] = None

\* What the caller of get_all_accounts_equity gets, and what the caller of
\* send_equity_to_telegram gets and the chat shows, when every account failed.
AllFailedReport == <<>>
AllFailedOutcome == <<"false", <<FailedMessage>>>>

\* C12 as stated: a run without any account credential ends early (no
\* account is processed, no report is posted) and its caller can tell it
\* from a run whose accounts all failed: get_all_accounts_equity returns
\* something else, and so does send_equity_to_telegram or the chat shows
\* something else.
C12_ConfigErrorDistinct ==
    /\ (pc = "done" /\ AllAccountsFailed) => report = AllFailedReport
    /\ (pc = "returned" /\ AllAccountsFailed) =>
          <<success, sent_messages>> = AllFailedOutcome
    /\ NoAccountConfigured =>
          /\ results = <<>>
          /\ \A k \in 1..Len(sent_messages) : sent_messages[k] = FailedMessage
          /\ pc = "done" => report # AllFailedReport
          /\ pc = "returned" => <<success, sent_messages>> # AllFailedOutcome

\* send_equity_to_telegram posted the report and send_message returned
\* True / returned False (the line printed after it tells which).
ReportDelivered == printed # <<>> /\ printed[Len(printed)] = SentNotice
ReportRejected == printed # <<>> /\ printed[Len(printed)] = NotSentNotice

SomeSnapshot == \E k \in 1..Len(results) : results[k] # None
SomeFailure == \E k \in 1..Len(results) : results[k] = None

\* C13: when send_equity_to_telegram has returned, it returned False exactly
\* when the Telegram credentials were missing, or no account produced a
\* snapshot (no account credential among the cases), or send_message
\* reported failure; with a snapshot and a delivered report it returned True,
\* failed accounts or not; and a rejected report was posted once, not again.
C13_FailureOnlyWhenTotal ==
    /\ Len(sent_messages) <= 1
    /\ pc = "returned" =>
          /\ success \in {"true", "false"}
          /\ success = "false" <=>
                \/ sent_messages = <<>>
                \/ ~SomeSnapshot
                \/ ReportRejected
          /\ (SomeSnapshot /\ ReportDelivered) => success = "true"
          /\ ReportRejected => (success = "false" /\ Len(sent_messages) = 1)
          /\ (ReportDelivered \/ ReportRejected) <=> SomeSnapshot
    /\ pc # "returned" => (success = "none" /\ sent_messages = <<>>)

\* One account failed, the other gave a snapshot, the report was delivered:
\* success.
C13_Witness ==
    /\ pc = "returned"
    /\ Len(results) = 2
    /\ SomeFailure
    /\ SomeSnapshot
    /\ ReportDelivered
    /\ Len(sent_messages) = 1
    /\ success = "true"

\* A rejected report: failure, one post.
C13_Rejected ==
    /\ pc = "returned"
    /\ SomeSnapshot
    /\ ReportRejected
    /\ success = "false"

\* authenticate() or the refresh exchange has just stored a token payload.
JustAuthenticated == auth.ret = "true"
JustRefreshed == auth.refreshed = "ok"

\* The lifetime the server declared in the stored payload, 900 when none.
DeclaredLifetime ==
    IF auth.expires_in = <<>> THEN DefaultExpiresIn ELSE auth.expires_in[1]

\* C14: after every successful authentication and every successful refresh
\* the stored expiry is the time of the store plus the declared lifetime
\* (900 s when the answer declares none) minus 60 s.
C14_ExpiryFormula ==
    (JustAuthenticated \/ JustRefreshed) =>
        /\ token_expires_at # NoExpiry
        /\ token_expires_at[1] = auth.at + DeclaredLifetime - SafetyMargin
        /\ auth.expires_in = <<>> =>
              token_expires_at[1] = auth.at + DefaultExpiresIn - SafetyMargin

\* A refresh at a later time whose answer declares no lifetime.
C14_Witness ==
    /\ JustRefreshed
    /\ auth.at = TickSeconds
    /\ auth.expires_in = <<>>
    /\ token_expires_at = <<TickSeconds + DefaultExpiresIn - SafetyMargin>>

\* An authentication whose answer declares a lifetime.
C14_Declared ==
    /\ JustAuthenticated
    /\ auth.expires_in = <<SafetyMargin>>
    /\ token_expires_at = <<auth.at>>

\* ---- reading the posted text
\* The report has been formatted and posted; Text is what was posted.
ReportPosted == report # <<>> /\ sent_messages # <<>>
Text == sent_messages[1]

StartsWith(s, prefix) ==
    Len(s) >= Len(prefix) /\ SubSeq(s, 1, Len(prefix)) = prefix
EndsWith(s, suffix) ==
    Len(s) >= Len(suffix) /\ SubSeq(s, Len(s) - Len(suffix) + 1, Len(s)) = suffix

\* Position of the first line feed of s at or after k, Len(s) + 1 if none.
RECURSIVE LineEnd(_, _)
LineEnd(s, k) ==
    IF k > Len(s) \/ SubSeq(s, k, k) = "\n" THEN k ELSE LineEnd(s, k + 1)

\* The lines of a text: what lies between its line feeds.
RECURSIVE Split(_)
Split(s) ==
    LET e == LineEnd(s, 1)
    IN  IF e > Len(s) THEN <<s>>
        ELSE <<SubSeq(s, 1, e - 1)>> \o Split(SubSeq(s, e + 1, Len(s)))

\* s without its leading blanks.
RECURSIVE StripLeft(_)
StripLeft(s) ==
    IF StartsWith(s, " ") THEN StripLeft(SubSeq(s, 2, Len(s))) ELSE s

\* The lines ls without their leading blanks and their unit.
Bare(ls, unit) ==
    [n \in 1..Len(ls) |-> StripLeft(SubSeq(ls[n], 1, Len(ls[n]) - Len(unit)))]

\* The sizes shown on the lines of a text that end with unit, in order.
SizesShown(lines, unit) ==
    Bare(SelectSeq(lines, LAMBDA l : EndsWith(l, unit)), unit)

\* The base sizes and the quote sizes of the posted text, and the
\* positions of the report, all in order.
BaseSizes == SizesShown(Split(Text), " BTC")
QuoteSizes == SizesShown(Split(Text), " USD")
ShownPositions == Flatten([k \in 1..Len(report) |-> report[k].positions])

IsSell(position) == "direction" \in DOMAIN position /\ position.direction = "sell"

\* The raw value is the int 0, which is also what a missing key counts as.
IntZero(position, key) ==
    \/ key \notin DOMAIN position
    \/ (~position[key].float /\ position[key].whole = 0)

\* C15 as stated: each position has its base-size line and its quote-size
\* line; for direction "sell" both sizes begin with "-", for any other
\* direction neither does.
C15_Original ==
    ReportPosted =>
        \A lines \in {Split(Text)}, shown \in {ShownPositions} :
        \A base \in {SizesShown(lines, " BTC")}, quote \in {SizesShown(lines, " USD")} :
            /\ Len(base) = Len(shown)
            /\ Len(quote) = Len(shown)
            /\ \A n \in 1..Len(shown) :
                  /\ StartsWith(base[n], "-") <=> IsSell(shown[n])
                  /\ StartsWith(quote[n], "-") <=> IsSell(shown[n])

\* C15 amended: for direction "sell" a size begins with "-" unless its raw
\* value is the int 0 (the value a missing key counts as), which is shown
\* unsigned; for any other direction no size begins with "-", whatever the
\* sign of the raw value.
C15_SignByDirection ==
    ReportPosted =>
        \A lines \in {Split(Text)}, shown \in {ShownPositions} :
        \A base \in {SizesShown(lines, " BTC")}, quote \in {SizesShown(lines, " USD")} :
            /\ Len(base) = Len(shown)
            /\ Len(quote) = Len(shown)
            /\ \A n \in 1..Len(shown) :
                  /\ StartsWith(base[n], "-") <=>
                        (IsSell(shown[n]) /\ ~IntZero(shown[n], "size_currency"))
                  /\ StartsWith(quote[n], "-") <=>
                        (IsSell(shown[n]) /\ ~IntZero(shown[n], "size"))

\* A "buy" position whose raw sizes are both negative, shown unsigned.
C15_Witness ==
    /\ ReportPosted
    /\ Len(ShownPositions) = 1
    /\ ShownPositions[1].size = PyInt(-10)
    /\ "size_currency" \in DOMAIN ShownPositions[1]
    /\ ShownPositions[1].size_currency = PyFloat(TRUE, 0, 500000000)
    /\ "direction" \in DOMAIN ShownPositions[1]
    /\ ShownPositions[1].direction = "buy"
    /\ BaseSizes = <<"0.500000000">>
    /\ QuoteSizes = <<"10">>

\* A "sell" position with both sizes set, shown with "-".
C15_Sell ==
    /\ ReportPosted
    /\ Len(ShownPositions) = 1
    /\ IsSell(ShownPositions[1])
    /\ BaseSizes = <<"-0.006687487">>
    /\ QuoteSizes = <<"-1234567">>

IsHeader(line) == StartsWith(line, "<b>Deribit</b> ")
IsPositionLine(line) == StartsWith(line, "Position: ")

\* Number of empty lines right before line k of ls.
RECURSIVE BlankLinesBefore(_, _)
BlankLinesBefore(ls, k) ==
    IF k > 1 /\ ls[k - 1] = "" THEN 1 + BlankLinesBefore(ls, k - 1) ELSE 0

\* C16 as stated: in the text of every report, the block of a position
\* that follows another position of the same account comes after exactly
\* one blank line, the header of an account that follows another account
\* comes after exactly two blank lines, with or without positions in the
\* earlier account, and the text does not end with a blank line.
C16_BlankLines ==
    ReportPosted =>
        \A ls \in {Split(Text)} :
            /\ ls[Len(ls)] # ""
            /\ \A k \in 2..Len(ls) :
                  /\ IsHeader(ls[k]) => BlankLinesBefore(ls, k) = 2
                  /\ (IsPositionLine(ls[k]) /\ ~IsHeader(ls[k - 1])) =>
                        BlankLinesBefore(ls, k) = 1

\* What the text is like instead: one blank line between the positions of
\* an account, two after an account with positions, one after an account
\* without, and one empty line at the end when the last account has
\* positions.
C16_AsBuilt ==
    ReportPosted =>
        \A ls \in {Split(Text)} :
            /\ ls[Len(ls)] = "" <=> report[Len(report)].positions # <<>>
            /\ \A k \in 2..Len(ls) :
                  /\ IsHeader(ls[k]) =>
                        BlankLinesBefore(ls, k) =
                            IF ls[k - 2] = "Liquidation: -" /\ ls[k - 3] = "Position: -"
                            THEN 1 ELSE 2
                  /\ (IsPositionLine(ls[k]) /\ ~IsHeader(ls[k - 1])) =>
                        BlankLinesBefore(ls, k) = 1

\* Digits in groups of three, a period between the groups.
RECURSIVE Grouped(_)
Grouped(n) ==
    IF n < 1000 THEN Digits(n)
    ELSE Grouped(n \div 1000) \o "." \o Padded(n % 1000, 3)

\* C17 as stated: the quote size of each position is shown as an integer
\* with periods between its groups of three digits, "-" in front for
\* direction "sell" and nothing for any other: 1234567 "buy" is 1.234.567.
C17_ThousandsSeparator ==
    ReportPosted =>
        \A quote \in {QuoteSizes}, shown \in {ShownPositions} :
            /\ Len(quote) = Len(shown)
            /\ \A n \in 1..Len(shown) :
                  /\ quote[n] = (IF IsSell(shown[n]) THEN "-" ELSE "")
                                  \o Grouped(shown[n].size.whole)
                  /\ (shown[n].size = PyInt(1234567) /\ ~IsSell(shown[n])) =>
                        quote[n] = "1.234.567"

\* A refresh token is held (not None, not the empty string).
HoldsRefreshToken == refresh_token # NoToken /\ refresh_token # EmptyToken

\* refresh_access_token is running for a call (ensure_authenticated or the
\* invalid-token branch), at its refresh exchange / in its authenticate().
Refreshing == pc = "refresh"
FullAuthForCall == pc = "auth" /\ ctx # "top"

\* The stored token is present and time.time() is before its expiry.
StoredTokenValid ==
    /\ access_token # NoToken
    /\ token_expires_at # NoExpiry
    /\ now < token_expires_at[1]

\* Where a call that needs a new token goes first.
FirstExchange == IF HoldsRefreshToken THEN "refresh" ELSE "auth"

C18_Direct ==
    /\ FullAuthForCall
    /\ ~HoldsRefreshToken
    /\ auth.refreshed = "none"
    /\ auth.tried = <<"GET_scope">>

\* C19: each request sent to the endpoint carries the access token the
\* monitor holds when it is sent; the retry after an invalid-token answer
\* carries the token the reauthentication has just stored, which is not
\* the one the first request carried.
C19_BearerIsCurrentToken ==
    [][/\ (call'.requests = call.requests + 1) =>
             /\ call'.sent = Append(call.sent, access_token)
             /\ access_token # NoToken
       /\ (pc = "retry" /\ pc' # "retry") =>
             /\ call.requests = 1
             /\ call'.requests = 2
             /\ JustAuthenticated \/ JustRefreshed
             /\ call'.sent[2] = auth.access
             /\ auth.access # NoToken
             /\ auth.access # call.sent[1]]_vars

\* A retry has been sent: the first request carried token 1, the retry the
\* token issued after it, which the monitor still holds.
C19_Witness ==
    /\ call.retry = "ok"
    /\ call.first = "stale"
    /\ call.sent = <<1, 2>>
    /\ access_token = 2

\* authenticate() or refresh_access_token() has returned True and
\* time.time() has not moved since the token was stored.
FreshlyMinted == (JustAuthenticated \/ JustRefreshed) /\ now = auth.at

\* C20 as stated: right after a successful authenticate or refresh the
\* token is valid, whatever lifetime the server declared (so that the call
\* that follows, which asks is_token_valid first, needs no exchange).
C20_Original == FreshlyMinted => StoredTokenValid

\* C20 amended: right after a successful authenticate or refresh the token
\* is valid exactly when the declared lifetime (900 s when none is
\* declared) is more than 60 s, and the call that follows then sends its
\* request with no exchange before it; with a lifetime of 60 s or less the
\* token is stored already expired and the call that follows starts with
\* another refresh or authentication exchange.
C20_ValidIfLifetimeExceedsMargin ==
    /\ [](FreshlyMinted => (StoredTokenValid <=> DeclaredLifetime > SafetyMargin))
    /\ [][(FreshlyMinted /\ pc = "call") =>
             IF DeclaredLifetime > SafetyMargin
             THEN pc' = "request" /\ call'.ensured = "none"
             ELSE pc' \in {"refresh", "auth"} /\ call'.ensured = "started"]_vars

\* An authentication at a later time, default lifetime: the token is valid
\* and the account's first call is about to start.
C20_Witness ==
    /\ pc = "call"
    /\ JustAuthenticated
    /\ auth.at = TickSeconds
    /\ now = auth.at
    /\ auth.expires_in = <<>>
    /\ StoredTokenValid

\* A declared lifetime equal to the margin: expired as soon as stored.
C20_Expired ==
    /\ pc = "call"
    /\ FreshlyMinted
    /\ auth.expires_in = <<SafetyMargin>>
    /\ ~StoredTokenValid
====
